---- MODULE Spec2Model ----
(***************************************************************************)
(* State-machine model of OverlayWindow (src/cpp/OverlayWindow.h/.cpp):    *)
(* a click-through layered window that shows an analog clock and fades     *)
(* out.  The object's members keep their source names.  Everything runs    *)
(* on the thread that owns the message queue, so each handler is one       *)
(* atomic step; a message the handler sends (WM_CREATE from                *)
(* CreateWindowExW, WM_DESTROY from DestroyWindow) is handled inside the   *)
(* step that sends it.                                                     *)
(***************************************************************************)
EXTENDS Integers, Sequences, FiniteSets, TLC

(* ----------------------------- bounds ---------------------------------- *)
\* Number of OverlayWindow objects a process constructs.
NumSurfaces == 2
\* Number of window handles the host can hand out.
MaxWindows == 2
\* The count of RegisterClassExW calls is kept up to this value and stays
\* there (the count only serves to tell "once" from "more than once").
MaxRegisterCalls == 2

(* ------------------------ program constants ---------------------------- *)
TIMER_ID == 1
FADEOUT_TIMER_ID == 2
\* number of fade ticks after which the window is destroyed
FADE_TICKS == 100
\* initial opacity, also the scale of the fade
FULL_ALPHA == 255

NULL == 0
Surfaces == 1 .. NumSurfaces
Handles == 1 .. MaxWindows

\* (width, height) pairs GetSystemMetrics may report
ScreenMetrics == { <<20, 10>>, <<20, 30>> }
\* (hour, minute, second) triples GetLocalTime may report
LocalTimes == { <<3, 15, 0>>, <<3, 15, 59>>, <<15, 16, 30>> }
\* outcomes of the three acquisitions CreateClockBitmap makes
AllocOutcomes == { "ok", "noScreenDC", "noMemDC", "noDIB" }

VARIABLES
    obj,                \* obj[s]: "none" (never constructed), "alive", "freed"
    self,               \* self[s]: the members of object s
    s_classRegistered,  \* the static guard of Create
    wnd,                \* wnd[h]: the host's window behind handle h
    queue,              \* handles with a WM_CLEANUP posted and not yet taken
    dib,                \* dib[s]: the host's DIB section selected in s's memory DC
    ev,                 \* what the last step did: operation, host calls, result
    registerCalls,      \* how often RegisterClassExW was called so far
    allocFailed         \* objects one of whose buffer allocations has failed

vars == << obj, self, s_classRegistered, wnd, queue, dib, ev, registerCalls,
           allocFailed >>

(* ------------------------- pure helpers -------------------------------- *)
Min(a, b) == IF a < b THEN a ELSE b

\* static_cast<int>(minDimension * 0.8)
ClockSize(w, h) == (Min(w, h) * 8) \div 10

\* mutant: the alpha follows the counter instead of what is left of the fade
FadeAlpha_Rising(c) == ((FULL_ALPHA * c) \div FADE_TICKS) % 256

\* mutant: the BYTE cast applied to the product instead of the quotient
FadeAlpha_CastFirst(c) == ((FULL_ALPHA * (FADE_TICKS - c)) % 256) \div FADE_TICKS

\* static_cast<BYTE>(255 * (100 - m_fadeoutCounter) / 100)
FadeAlpha(c) == ((FULL_ALPHA * (FADE_TICKS - c)) \div FADE_TICKS) % 256

\* mutant: > in place of >=
FadeDone_AfterLimit(c) == c > FADE_TICKS

\* if (m_fadeoutCounter >= 100)
FadeDone(c) == c >= FADE_TICKS

\* mutant: the static guard is not consulted
NeedsRegistration_Always(flag) == TRUE

\* if (!s_classRegistered)
NeedsRegistration(flag) == ~flag

\* mutant: the buffer is allocated on every rasterization
NeedsBuffer_Always(o) == TRUE

\* Angles are kept in half degrees, the step of wMinute / 60.0 * 30.0.
AngleUnits == 2

\* mutant: the hour is not reduced to the 12-hour dial
HourAngle_NoWrap(wHour, wMinute) ==
    (((wHour * 60) + wMinute) * 30 * AngleUnits) \div 60

\* hourAngle = ((st.wHour % 12) + st.wMinute / 60.0) * 30.0, the sum taken
\* over the common denominator 60
HourAngle(wHour, wMinute) ==
    ((((wHour % 12) * 60) + wMinute) * 30 * AngleUnits) \div 60

\* minuteAngle = st.wMinute * 6.0
MinuteAngle(wMinute) == wMinute * 6 * AngleUnits

\* the angles of the two hands drawn for the local time t
Hands(t) == << HourAngle(t[1], t[2]), MinuteAngle(t[2]) >>

\* if (!m_hdcMem)
NeedsBuffer(o) == o.m_hdcMem = NULL

\* members after the constructor's initialiser list
Constructed ==
    [ m_hWnd |-> NULL, m_fadeoutCounter |-> 0, m_currentAlpha |-> FULL_ALPHA,
      m_screenWidth |-> 0, m_screenHeight |-> 0, m_clockSize |-> 0,
      m_hdcMem |-> NULL, m_hBitmap |-> NULL, m_hOldBitmap |-> NULL,
      m_pBits |-> NULL ]

\* a handle the host has not used yet
NoWindow == [ state |-> "unused", userdata |-> NULL, timers |-> {},
              transparent |-> FALSE, shown |-> FALSE ]

\* Abstract contents of the pixel buffer: the angles of the hands drawn,
\* the m_clockSize the drawing and the mask were laid out with, and whether
\* the mask premultiplied it.  Blank is the zeroed memory of a new section.
Blank == [ hands |-> << >>, geom |-> 0, masked |-> FALSE ]

Drawn(a, n, m) == [ hands |-> a, geom |-> n, masked |-> m ]

\* mutant: the buffer is not cleared before the clock is drawn
ClearBuffer_Skipped(bits) == bits

\* graphics.Clear(Color(0, 0, 0, 0)): every pixel transparent black
ClearBuffer(bits) == Blank

\* The face, the hands at angles a and the hub drawn with anti-aliasing in
\* a buffer of side n: on transparent black the result is the drawing
\* alone; on anything else the smoothed edges blend with what was there.
DrawClock(bits, a, n) ==
    IF bits = Blank THEN Drawn(a, n, FALSE)
    ELSE [ hands |-> a, geom |-> n, masked |-> FALSE,
           under |-> << bits.hands, bits.geom, bits.masked >> ]

\* pixel contents a write past the end of the buffer may leave behind
PixelValues ==
    { Blank } \cup { Drawn(Hands(t), ClockSize(m[1], m[2]), TRUE) :
                          t \in LocalTimes, m \in ScreenMetrics }

\* no bitmap behind the memory DC
NoDib == [ size |-> 0, bits |-> Blank ]

\* one host call: the API and the arguments the model tracks
Call(api, args) == [ api |-> api, args |-> args ]

Event(op, s, calls, ret) == [ op |-> op, s |-> s, calls |-> calls, ret |-> ret ]

ApisOf(calls) == { calls[i].api : i \in 1 .. Len(calls) }

Called(api) == api \in ApisOf(ev.calls)

\* calls of a handler that asked for the memory DC and got no buffer to draw in
AllocationFailed(calls) ==
    "CreateCompatibleDC" \in ApisOf(calls) /\ "Draw" \notin ApisOf(calls)

(* ------------------------ OverlayWindow methods ------------------------ *)
\* ApplyCircularAlphaMask: walks m_clockSize * m_clockSize pixels of m_pBits.
\* The walk stays inside the section iff m_clockSize <= its side; past it the
\* writes are undefined and leave the contents u.
ApplyCircularAlphaMask(o, d, u) ==
    IF o.m_pBits = NULL THEN d
    ELSE IF o.m_clockSize > d.size THEN [ d EXCEPT !.bits = u ]
    ELSE [ d EXCEPT !.bits.geom = o.m_clockSize, !.bits.masked = TRUE ]

\* mutant: the handle of the deleted DC is left in m_hdcMem
AfterDibFailure_KeepHandle(o) ==
    [ o EXCEPT !.m_hdcMem = 1, !.m_hBitmap = NULL, !.m_pBits = NULL ]

\* CreateClockBitmap after CreateDIBSection returned null: DeleteDC(m_hdcMem)
\* and m_hdcMem = nullptr.
AfterDibFailure(o) ==
    [ o EXCEPT !.m_hdcMem = NULL, !.m_hBitmap = NULL, !.m_pBits = NULL ]

\* CreateClockBitmap: allocate the memory DC and the DIB section on the first
\* call that finds m_hdcMem null, then draw the clock for time t and mask it.
\* r is the outcome of the acquisitions, u the contents left by an overrun.
\* Result: the members, the host bitmap and the host calls made.
CreateClockBitmap(o, d, r, t, u) ==
    IF r = "noScreenDC" THEN [ o |-> o, d |-> d, calls |-> << >> ]
    ELSE IF NeedsBuffer(o) /\ r = "noMemDC"
    THEN [ o |-> o, d |-> d, calls |-> << Call("CreateCompatibleDC", << >>) >> ]
    ELSE IF NeedsBuffer(o) /\ r = "noDIB"
    THEN [ o |-> AfterDibFailure(o),
           d |-> d,
           calls |-> << Call("CreateCompatibleDC", << >>),
                        Call("CreateDIBSection", << o.m_clockSize >>),
                        Call("DeleteDC", << >>) >> ]
    ELSE
      LET fresh == NeedsBuffer(o)
          o1 == IF fresh
                THEN [ o EXCEPT !.m_hdcMem = 1, !.m_hBitmap = 1, !.m_pBits = 1,
                                !.m_hOldBitmap = 1 ]
                ELSE o
          d1 == IF fresh THEN [ size |-> o.m_clockSize, bits |-> Blank ] ELSE d
          d2 == [ d1 EXCEPT !.bits = DrawClock(ClearBuffer(d1.bits), Hands(t),
                                               o1.m_clockSize) ]
          alloc == IF fresh
                   THEN << Call("CreateCompatibleDC", << >>),
                           Call("CreateDIBSection", << o.m_clockSize >>) >>
                   ELSE << >>
      IN [ o |-> o1,
           d |-> ApplyCircularAlphaMask(o1, d2, u),
           calls |-> alloc \o << Call("Draw", << Hands(t), d1.size >>) >>
                     \o (IF o1.m_pBits = NULL THEN << >>
                         ELSE << Call("Mask", << o1.m_clockSize, d1.size >>) >>) ]

\* mutant: the buffer's presence is not tested
UpdateWindowDisplay_Unchecked(o, dcOk) ==
    IF ~dcOk THEN << >>
    ELSE << Call("UpdateLayeredWindow",
                 << o.m_hWnd, o.m_currentAlpha, o.m_clockSize,
                    (o.m_screenWidth - o.m_clockSize) \div 2,
                    (o.m_screenHeight - o.m_clockSize) \div 2 >>) >>

\* UpdateWindowDisplay: composite the buffer onto the window at m_currentAlpha;
\* returns without a call when the buffer is not there or GetDC fails (dcOk).
UpdateWindowDisplay(o, dcOk) ==
    IF o.m_hdcMem = NULL \/ o.m_hBitmap = NULL THEN << >>
    ELSE IF ~dcOk THEN << >>
    ELSE << Call("UpdateLayeredWindow",
                 << o.m_hWnd, o.m_currentAlpha, o.m_clockSize,
                    (o.m_screenWidth - o.m_clockSize) \div 2,
                    (o.m_screenHeight - o.m_clockSize) \div 2 >>) >>

\* WndProc, WM_DESTROY: kill both timers and post WM_CLEANUP to the window.
WmDestroy(W, Q, h) ==
    [ wnd |-> [ W EXCEPT ![h].timers = { } ],
      queue |-> Q \cup { h },
      calls |-> << Call("KillTimer", << h, TIMER_ID >>),
                   Call("KillTimer", << h, FADEOUT_TIMER_ID >>),
                   Call("PostMessage", << h >>) >> ]

\* mutant: the cleanup message is posted but the window is left alive
DestroyWindow_PostOnly(W, Q, h, keep) ==
    IF h \notin Handles \/ W[h].state # "live"
    THEN [ wnd |-> W, queue |-> Q, calls |-> << Call("DestroyWindow", << h >>) >> ]
    ELSE [ wnd |-> W, queue |-> Q \cup { h },
           calls |-> << Call("PostMessage", << h >>) >> ]

\* DestroyWindow(h) as the code calls it: the host sends WM_DESTROY to the
\* window procedure and then destroys the window.  A null or already
\* destroyed handle makes the call fail without a message.  The Win32
\* contract lets the host drop what is still queued for the window; whether
\* the WM_CLEANUP posted from inside WM_DESTROY survives is the host's
\* choice (keep), not the program's.
DestroyWindow(W, Q, h, keep) ==
    IF h \notin Handles \/ W[h].state # "live"
    THEN [ wnd |-> W, queue |-> Q, calls |-> << Call("DestroyWindow", << h >>) >> ]
    ELSE LET m == WmDestroy(W, Q, h)
         IN [ wnd |-> [ m.wnd EXCEPT ![h].state = "destroyed", ![h].timers = { } ],
              queue |-> IF keep THEN m.queue ELSE m.queue \ { h },
              calls |-> << Call("DestroyWindow", << h >>) >> \o m.calls ]

\* ~OverlayWindow: release the bitmap and the memory DC if there is one, then
\* destroy the window m_hWnd names if it is not null.
Destructor(o, d, W, Q, keep) ==
    LET gdi == IF o.m_hdcMem # NULL
               THEN (IF o.m_hOldBitmap # NULL
                     THEN << Call("SelectObject", << >>) >> ELSE << >>)
                    \o (IF o.m_hBitmap # NULL
                        THEN << Call("DeleteObject", << >>) >> ELSE << >>)
                    \o << Call("DeleteDC", << >>) >>
               ELSE << >>
        dw == IF o.m_hWnd # NULL
              THEN DestroyWindow(W, Q, o.m_hWnd, keep)
              ELSE [ wnd |-> W, queue |-> Q, calls |-> << >> ]
    IN [ d |-> IF o.m_hdcMem # NULL THEN NoDib ELSE d,
         wnd |-> dw.wnd, queue |-> dw.queue, calls |-> gdi \o dw.calls ]

(* ------------------------------ state ---------------------------------- *)
\* After construction of the objects in S: members from the initialiser list,
\* class not registered, no window, nothing queued.
InitWith(S) ==
    /\ obj = [ s \in Surfaces |-> IF s \in S THEN "alive" ELSE "none" ]
    /\ self = [ s \in Surfaces |-> Constructed ]
    /\ s_classRegistered = FALSE
    /\ wnd = [ h \in Handles |-> NoWindow ]
    /\ queue = { }
    /\ dib = [ s \in Surfaces |-> NoDib ]
    /\ ev = Event("new", 0, << >>, "void")
    /\ registerCalls = 0
    /\ allocFailed = { }

\* one overlay, as the program shows one clock
Init == InitWith({ 1 })

\* every overlay the bound allows, in one process
InitMulti == InitWith(Surfaces)

FreeHandles == { h \in Handles : wnd[h].state = "unused" }

NewHandle == CHOOSE h \in FreeHandles : \A k \in FreeHandles : h <= k

\* windows whose user data points at object s
WindowsOf(s) == { h \in Handles : wnd[h].state # "unused" /\ wnd[h].userdata = s }

LiveWindowsOf(s) == { h \in WindowsOf(s) : wnd[h].state = "live" }

\* mutant: the object is kept in one static pointer, set by the latest
\* WM_NCCREATE, instead of in each window's user data
ObjectOf_LastCreated(W, h) ==
    LET made == { k \in Handles : W[k].state # "unused" }
    IN W[CHOOSE k \in made : \A j \in made : j <= k].userdata

\* WndProcStatic: the object a message for window h is dispatched to, the
\* pointer WM_NCCREATE stored in the window's GWLP_USERDATA
ObjectOf(W, h) == W[h].userdata

(* ----------------------------- operations ------------------------------ *)
\* WndProc, WM_CREATE (sent by CreateWindowExW): start both timers on the new
\* window and reset the fade.
WmCreate(o) == [ o EXCEPT !.m_fadeoutCounter = 0, !.m_currentAlpha = FULL_ALPHA ]

\* MakeWindowClickThrough: add WS_EX_TRANSPARENT to the window m_hWnd names.
MakeWindowClickThrough(W, h) == [ W EXCEPT ![h].transparent = TRUE ]

\* mutant: the null handle is tested after the work instead of before it
AfterCreateWindow_LateCheck(o, d, W, r, t, u) ==
    LET b == CreateClockBitmap(o, d, r, t, u)
    IN [ o |-> b.o, d |-> b.d,
         wnd |-> IF o.m_hWnd = NULL THEN W ELSE MakeWindowClickThrough(W, o.m_hWnd),
         calls |-> << Call("SetWindowLong", << o.m_hWnd >>) >> \o b.calls,
         ret |-> IF o.m_hWnd = NULL THEN "false" ELSE "true" ]

\* Create() from the test of m_hWnd on: return false on a null handle,
\* otherwise make the window click-through, rasterize and return true.
AfterCreateWindow(o, d, W, r, t, u) ==
    IF o.m_hWnd = NULL
    THEN [ o |-> o, d |-> d, wnd |-> W, calls |-> << >>, ret |-> "false" ]
    ELSE LET b == CreateClockBitmap(o, d, r, t, u)
         IN [ o |-> b.o, d |-> b.d, wnd |-> MakeWindowClickThrough(W, o.m_hWnd),
              calls |-> << Call("SetWindowLong", << o.m_hWnd >>) >> \o b.calls,
              ret |-> "true" ]

\* bool Create(): register the class once, sample the screen, create the
\* window (WM_NCCREATE stores the object in the user data, WM_CREATE runs),
\* then AfterCreateWindow.
\* regOk, wndOk: whether RegisterClassExW and CreateWindowExW succeed;
\* m: the screen metrics; r, t, u: as in CreateClockBitmap.
Create(s, regOk, m, wndOk, r, t, u) ==
    /\ obj[s] = "alive"
    /\ LET register == NeedsRegistration(s_classRegistered)
           reg == IF register THEN << Call("RegisterClassExW", << >>) >> ELSE << >>
       IN
       /\ registerCalls' = IF register /\ registerCalls < MaxRegisterCalls
                           THEN registerCalls + 1 ELSE registerCalls
       /\ IF register /\ ~regOk
          THEN /\ ev' = Event("Create", s, reg, "false")
               /\ UNCHANGED << obj, self, s_classRegistered, wnd, queue, dib,
                               allocFailed >>
          ELSE
            LET made == wndOk /\ FreeHandles # { }
                h == IF made THEN NewHandle ELSE NULL
                o1 == [ self[s] EXCEPT !.m_screenWidth = m[1], !.m_screenHeight = m[2],
                                       !.m_clockSize = ClockSize(m[1], m[2]) ]
                o2 == [ (IF made THEN WmCreate(o1) ELSE o1) EXCEPT !.m_hWnd = h ]
                W1 == IF made
                      THEN [ wnd EXCEPT ![h] =
                               [ state |-> "live", userdata |-> s,
                                 timers |-> { TIMER_ID, FADEOUT_TIMER_ID },
                                 transparent |-> FALSE, shown |-> FALSE ] ]
                      ELSE wnd
                cw == << Call("CreateWindowExW", << m[1], m[2] >>) >>
                      \o (IF made
                          THEN << Call("SetTimer", << h, TIMER_ID >>),
                                  Call("SetTimer", << h, FADEOUT_TIMER_ID >>) >>
                          ELSE << >>)
                a == AfterCreateWindow(o2, dib[s], W1, r, t, u)
            IN /\ s_classRegistered' = TRUE
               /\ self' = [ self EXCEPT ![s] = a.o ]
               /\ wnd' = a.wnd
               /\ dib' = [ dib EXCEPT ![s] = a.d ]
               /\ ev' = Event("Create", s, reg \o cw \o a.calls, a.ret)
               /\ allocFailed' = IF AllocationFailed(a.calls)
                                 THEN allocFailed \cup { s } ELSE allocFailed
               /\ UNCHANGED << obj, queue >>

\* void Show(): show the window m_hWnd names and composite.
Show(s, dcOk) ==
    /\ obj[s] = "alive"
    /\ LET h == self[s].m_hWnd
       IN wnd' = IF h \in Handles /\ wnd[h].state = "live"
                 THEN [ wnd EXCEPT ![h].shown = TRUE ] ELSE wnd
    /\ ev' = Event("Show", s, UpdateWindowDisplay(self[s], dcOk), "void")
    /\ UNCHANGED << obj, self, s_classRegistered, queue, dib, registerCalls,
                    allocFailed >>

\* WndProc, WM_PAINT: BeginPaint/EndPaint, nothing drawn.
WmPaint(h) ==
    /\ wnd[h].state = "live" /\ wnd[h].shown
    /\ obj[ObjectOf(wnd, h)] = "alive"
    /\ ev' = Event("WM_PAINT", ObjectOf(wnd, h), << >>, "void")
    /\ UNCHANGED << obj, self, s_classRegistered, wnd, queue, dib, registerCalls,
                    allocFailed >>

\* mutant: the timer id is not told apart, the redraw tick counts as a fade tick
WmTimerRedraw_CountsTick(h, r, t, u, dcOk) ==
    /\ wnd[h].state = "live" /\ TIMER_ID \in wnd[h].timers
    /\ LET s == ObjectOf(wnd, h)
           b == CreateClockBitmap(self[s], dib[s], r, t, u)
           c == Min(self[s].m_fadeoutCounter + 1, FADE_TICKS - 1)
           o1 == [ b.o EXCEPT !.m_fadeoutCounter = c, !.m_currentAlpha = FadeAlpha(c) ]
       IN /\ obj[s] = "alive"
          /\ self' = [ self EXCEPT ![s] = o1 ]
          /\ dib' = [ dib EXCEPT ![s] = b.d ]
          /\ ev' = Event("WM_TIMER_REDRAW", s,
                         b.calls \o UpdateWindowDisplay(o1, dcOk), "void")
          /\ allocFailed' = IF AllocationFailed(b.calls)
                            THEN allocFailed \cup { s } ELSE allocFailed
    /\ UNCHANGED << obj, s_classRegistered, wnd, queue, registerCalls >>

\* WndProc, WM_TIMER with TIMER_ID: rasterize again and composite.
WmTimerRedraw(h, r, t, u, dcOk) ==
    /\ wnd[h].state = "live" /\ TIMER_ID \in wnd[h].timers
    /\ LET s == ObjectOf(wnd, h)
           b == CreateClockBitmap(self[s], dib[s], r, t, u)
       IN /\ obj[s] = "alive"
          /\ self' = [ self EXCEPT ![s] = b.o ]
          /\ dib' = [ dib EXCEPT ![s] = b.d ]
          /\ ev' = Event("WM_TIMER_REDRAW", s,
                         b.calls \o UpdateWindowDisplay(b.o, dcOk), "void")
          /\ allocFailed' = IF AllocationFailed(b.calls)
                            THEN allocFailed \cup { s } ELSE allocFailed
    /\ UNCHANGED << obj, s_classRegistered, wnd, queue, registerCalls >>

\* WndProc, WM_TIMER with FADEOUT_TIMER_ID: count the tick; at FADE_TICKS
\* destroy the window, below it lower the alpha and composite.
WmTimerFade(h, dcOk, keep) ==
    /\ wnd[h].state = "live" /\ FADEOUT_TIMER_ID \in wnd[h].timers
    /\ LET s == ObjectOf(wnd, h)
           c == self[s].m_fadeoutCounter + 1
       IN /\ obj[s] = "alive"
          /\ IF FadeDone(c)
             THEN LET dw == DestroyWindow(wnd, queue, h, keep)
                  IN /\ self' = [ self EXCEPT ![s].m_fadeoutCounter = c ]
                     /\ wnd' = dw.wnd
                     /\ queue' = dw.queue
                     /\ ev' = Event("WM_TIMER_FADE", s, dw.calls, "void")
             ELSE LET o1 == [ self[s] EXCEPT !.m_fadeoutCounter = c,
                                             !.m_currentAlpha = FadeAlpha(c) ]
                  IN /\ self' = [ self EXCEPT ![s] = o1 ]
                     /\ ev' = Event("WM_TIMER_FADE", s,
                                    UpdateWindowDisplay(o1, dcOk), "void")
                     /\ UNCHANGED << wnd, queue >>
    /\ UNCHANGED << obj, s_classRegistered, dib, registerCalls, allocFailed >>

\* WndProc, WM_CLEANUP taken from the queue: delete this.
WmCleanup(h, keep) ==
    /\ h \in queue
    /\ LET s == ObjectOf(wnd, h)
           x == Destructor(self[s], dib[s], wnd, queue \ { h }, keep)
       IN /\ obj[s] = "alive"
          /\ obj' = [ obj EXCEPT ![s] = "freed" ]
          /\ dib' = [ dib EXCEPT ![s] = x.d ]
          /\ wnd' = x.wnd
          /\ queue' = x.queue
          /\ ev' = Event("WM_CLEANUP", s, x.calls, "void")
    /\ UNCHANGED << self, s_classRegistered, registerCalls, allocFailed >>

\* what a mask walking past the end of s's buffer may leave in it
OverrunOutcomes(s, n) ==
    IF self[s].m_pBits # NULL /\ n > dib[s].size THEN PixelValues ELSE { Blank }

\* the caller creates an overlay that has no window yet
FirstCreateAt(T) ==
    \E s \in Surfaces, regOk \in BOOLEAN, m \in ScreenMetrics, wndOk \in BOOLEAN,
       r \in AllocOutcomes, t \in T :
        /\ WindowsOf(s) = { }
        /\ Create(s, regOk, m, wndOk, r, t, Blank)

FirstCreate == FirstCreateAt(LocalTimes)

DoShow == \E s \in Surfaces, dcOk \in BOOLEAN : Show(s, dcOk)

Paint == \E h \in Handles : WmPaint(h)

RedrawTick ==
    \E h \in Handles, r \in AllocOutcomes, t \in LocalTimes, dcOk \in BOOLEAN :
        /\ wnd[h].state = "live"
        /\ \E u \in OverrunOutcomes(ObjectOf(wnd, h),
                                     self[ObjectOf(wnd, h)].m_clockSize) :
               WmTimerRedraw(h, r, t, u, dcOk)

FadeTick == \E h \in Handles, dcOk \in BOOLEAN, keep \in BOOLEAN : WmTimerFade(h, dcOk, keep)

Cleanup == \E h \in Handles, keep \in BOOLEAN : WmCleanup(h, keep)

Next == FirstCreate \/ DoShow \/ Paint \/ RedrawTick \/ FadeTick \/ Cleanup

Spec == Init /\ [][Next]_vars

\* The caller calls Create on an overlay that already has a window (the
\* class is registered by then, so RegisterClassExW's outcome is not drawn).
CreateAgain ==
    \E s \in Surfaces, m \in ScreenMetrics, wndOk \in BOOLEAN,
       r \in AllocOutcomes, t \in LocalTimes :
        /\ WindowsOf(s) # { }
        /\ s_classRegistered
        /\ \E u \in OverrunOutcomes(s, ClockSize(m[1], m[2])) :
               Create(s, TRUE, m, wndOk, r, t, u)

\* Every overlay of the bound constructed, and the calls a caller makes on
\* them (Create until it has a window, Show) before the message loop
\* dispatches anything.
\* Create reads the clock only to draw; before the loop runs one reading
\* stands for all of them.
StartupTimes == { <<3, 15, 0>> }

StartupCreate == FirstCreateAt(StartupTimes)

NextStartup == StartupCreate \/ DoShow

SpecStartup == InitMulti /\ [][NextStartup]_vars

\* One overlay on which the caller calls Create any number of times, and
\* Show, before the message loop dispatches anything.
NextReuse == FirstCreate \/ CreateAgain \/ DoShow

SpecReuse == Init /\ [][NextReuse]_vars

\* The fade timer keeps firing while it is set and the message loop keeps
\* dispatching what is queued.
FairSpec == Spec /\ WF_vars(FadeTick) /\ WF_vars(Cleanup)

TypeOK ==
    /\ obj \in [ Surfaces -> { "none", "alive", "freed" } ]
    /\ s_classRegistered \in BOOLEAN
    /\ queue \subseteq Handles
    /\ registerCalls \in 0 .. MaxRegisterCalls
    /\ allocFailed \subseteq Surfaces
    /\ \A s \in Surfaces : self[s].m_hWnd \in { NULL } \cup Handles

(* ------------------------------ claims --------------------------------- *)
TheWindowOf(s) == CHOOSE h \in WindowsOf(s) : TRUE

CreatedOnce(s) == Cardinality(WindowsOf(s)) = 1

\* an UpdateLayeredWindow call of the last step that reached a live window
Presented ==
    \E i \in 1 .. Len(ev.calls) :
        /\ ev.calls[i].api = "UpdateLayeredWindow"
        /\ ev.calls[i].args[1] \in Handles
        /\ wnd[ev.calls[i].args[1]].state = "live"

TimerOps == { "WM_TIMER_REDRAW", "WM_TIMER_FADE" }

\* C1: on a surface whose Create succeeded once, the fade counter is in
\* 0..100 in every state, is 0 right after that Create, and never decreases
\* from a state to the next, whatever the interleaving of the two timers.
C1_FadeCounterMonotone ==
    /\ [](\A s \in Surfaces :
            CreatedOnce(s) =>
              /\ self[s].m_fadeoutCounter \in 0 .. 100
              /\ (ev.op = "Create" /\ ev.s = s /\ ev.ret = "true"
                    => self[s].m_fadeoutCounter = 0))
    /\ [][\A s \in Surfaces :
            CreatedOnce(s) /\ CreatedOnce(s)'
              => self'[s].m_fadeoutCounter >= self[s].m_fadeoutCounter]_vars

\* a redraw tick handled in the middle of the fade
C1_Witness ==
    \E s \in Surfaces :
        /\ CreatedOnce(s)
        /\ self[s].m_fadeoutCounter = 57
        /\ ev.op = "WM_TIMER_REDRAW"

\* C2: while the window exists and the fade counter c is in 0..99, the
\* global alpha is 255*(100-c)/100 in integer division, hence within 0..255
\* and 255 at c = 0.
C2_AlphaFollowsCounter ==
    \A s \in Surfaces :
        LiveWindowsOf(s) # { } /\ self[s].m_fadeoutCounter \in 0 .. 99
          => /\ self[s].m_currentAlpha = (255 * (100 - self[s].m_fadeoutCounter)) \div 100
             /\ self[s].m_currentAlpha \in 0 .. 255
             /\ (self[s].m_fadeoutCounter = 0 => self[s].m_currentAlpha = 255)

\* the last fade tick that still composites
C2_Witness ==
    \E s \in Surfaces :
        /\ LiveWindowsOf(s) # { }
        /\ self[s].m_fadeoutCounter = 99
        /\ self[s].m_currentAlpha = 2
        /\ ev.op = "WM_TIMER_FADE"

C5_EventuallyFreed ==
    \A s \in Surfaces :
        (self[s].m_fadeoutCounter >= 100) ~> (obj[s] = "freed" /\ dib[s] = NoDib)

\* C6: a Create whose registration or window creation fails returns false
\* and does nothing more: no style set, no buffer allocated or rasterized,
\* no timer set, no composite; a Create that returns false did nothing more.
C6_CreateFailureDoesNothingMore ==
    [][ ev'.op = "Create" =>
          LET s == ev'.s
              failed == ~s_classRegistered' \/ self'[s].m_hWnd = NULL
          IN /\ failed <=> ev'.ret = "false"
             /\ failed =>
                  /\ ApisOf(ev'.calls) \subseteq { "RegisterClassExW", "CreateWindowExW" }
                  /\ wnd' = wnd /\ dib' = dib /\ queue' = queue
                  /\ self'[s].m_hdcMem = self[s].m_hdcMem
                  /\ self'[s].m_hBitmap = self[s].m_hBitmap
                  /\ self'[s].m_pBits = self[s].m_pBits ]_vars

\* the class is registered and CreateWindowExW failed
C6_Witness ==
    /\ ev.op = "Create" /\ ev.ret = "false"
    /\ Called("CreateWindowExW")
    /\ s_classRegistered

\* C7 as stated: over any sequence of Create calls on any number of
\* instances, failed attempts included, RegisterClassExW is executed at most
\* once.
C7_RegistrationExecutedAtMostOnce == registerCalls <= 1

\* C7 as amended: the registration succeeds at most once: it is executed only
\* by a Create that finds the class unregistered, once in that call, and
\* after a registration has succeeded the class stays registered and no
\* Create on any instance executes it again.
C7_RegistrationSucceedsAtMostOnce ==
    [][ /\ s_classRegistered
          => s_classRegistered' /\ "RegisterClassExW" \notin ApisOf(ev'.calls)
        /\ "RegisterClassExW" \in ApisOf(ev'.calls)
          => /\ ev'.op = "Create"
             /\ ~s_classRegistered
             /\ Cardinality({ i \in 1 .. Len(ev'.calls) :
                                ev'.calls[i].api = "RegisterClassExW" }) = 1
        /\ ~s_classRegistered /\ s_classRegistered'
          => "RegisterClassExW" \in ApisOf(ev'.calls) ]_vars

\* two instances have windows, the second created without registering,
\* after a registration attempt had failed
C7_Witness ==
    /\ Cardinality({ s \in Surfaces : WindowsOf(s) # { } }) >= 2
    /\ registerCalls = 2
    /\ ev.op = "Create" /\ ev.ret = "true"
    /\ ~Called("RegisterClassExW")

\* C8: once an object holds its memory DC and bitmap, no step allocates a DC
\* or a bitmap for it again; every later rasterization draws into, and every
\* composite presents, that same buffer, until the object is destroyed.
C8_BufferCreatedOnce ==
    [][ \A s \in Surfaces :
          obj[s] = "alive" /\ self[s].m_hdcMem # NULL /\ ev'.s = s
          => /\ "CreateCompatibleDC" \notin ApisOf(ev'.calls)
             /\ "CreateDIBSection" \notin ApisOf(ev'.calls)
             /\ obj'[s] = "alive"
                  => /\ self'[s].m_hdcMem = self[s].m_hdcMem
                     /\ self'[s].m_hBitmap = self[s].m_hBitmap
                     /\ self'[s].m_pBits = self[s].m_pBits
                     /\ dib'[s].size = dib[s].size
                     /\ \A i \in 1 .. Len(ev'.calls) :
                          ev'.calls[i].api = "Draw"
                            => ev'.calls[i].args[2] = dib[s].size ]_vars

\* a redraw tick drew into the buffer allocated earlier
C8_Witness ==
    /\ ev.op = "WM_TIMER_REDRAW"
    /\ Called("Draw") /\ Called("UpdateLayeredWindow")
    /\ ~Called("CreateCompatibleDC")
    /\ self[ev.s].m_fadeoutCounter > 0

\* C9: whenever an object holds a buffer, every byte index
\* (y*m_clockSize + x)*4 + k the mask writes, for x, y < m_clockSize and
\* k < 4, lies inside the buffer, whose side is the m_clockSize it was
\* allocated with; also after Create is called again with other metrics.
C9_MaskStaysInsideBuffer ==
    \A s \in Surfaces :
        obj[s] = "alive" /\ self[s].m_pBits # NULL /\ self[s].m_clockSize > 0
          => LET n == self[s].m_clockSize
             IN ((n - 1) * n + (n - 1)) * 4 + 3 < dib[s].size * dib[s].size * 4

\* C10: while the object holds no memory DC, a step for it draws nothing,
\* masks nothing and composites nothing; a rasterization whose allocation
\* fails leaves the object without memory DC and bitmap; and a fade tick
\* still counts and lowers the alpha as usual.
C10_NoBufferNoPresent ==
    [][ \A s \in Surfaces :
          ev'.s = s /\ obj'[s] = "alive"
          => /\ self'[s].m_hdcMem = NULL
                  => /\ ApisOf(ev'.calls) \cap { "Draw", "Mask", "UpdateLayeredWindow" } = { }
                     /\ dib'[s] = NoDib
                     /\ self'[s].m_hBitmap = NULL /\ self'[s].m_pBits = NULL
             /\ "CreateCompatibleDC" \in ApisOf(ev'.calls)
                  /\ "Draw" \notin ApisOf(ev'.calls)
                  => self'[s].m_hdcMem = NULL
             /\ ev'.op = "WM_TIMER_FADE" /\ self[s].m_hdcMem = NULL
                  => /\ self'[s].m_fadeoutCounter = self[s].m_fadeoutCounter + 1
                     /\ self'[s].m_fadeoutCounter < 100
                          => self'[s].m_currentAlpha
                               = (255 * (100 - self'[s].m_fadeoutCounter)) \div 100 ]_vars

\* a fade tick in the middle of the fade on an object without buffer
C10_Witness ==
    /\ ev.op = "WM_TIMER_FADE"
    /\ self[ev.s].m_hdcMem = NULL
    /\ self[ev.s].m_fadeoutCounter = 50
    /\ self[ev.s].m_currentAlpha = 127
    /\ ev.calls = << >>

\* number of calls of api among calls
TimesCalled(api, calls) ==
    Cardinality({ i \in 1 .. Len(calls) : calls[i].api = api })

\* C11 as stated: once an off-screen buffer allocation has failed for a
\* surface, no later redraw tick of that surface attempts the allocation
\* again.
C11_FailedAllocationNeverRetried ==
    [][ \A s \in allocFailed :
          ~ ( /\ ev'.op = "WM_TIMER_REDRAW" /\ ev'.s = s
              /\ "CreateCompatibleDC" \in ApisOf(ev'.calls) ) ]_vars

\* C11 as amended: a failed allocation is not retried inside the operation
\* that requested it: each acquisition is called at most once per step, and
\* the failing step draws and composites nothing and leaves the object
\* without memory DC and bitmap.  Every later redraw tick that gets the
\* screen DC attempts the allocation again, and an allocation is attempted
\* only while the object holds no memory DC.
C11_RetriedOnNextRedrawTick ==
    [][ \A s \in Surfaces :
          ev'.s = s =>
            /\ TimesCalled("CreateCompatibleDC", ev'.calls) <= 1
            /\ TimesCalled("CreateDIBSection", ev'.calls) <= 1
            /\ AllocationFailed(ev'.calls)
                 => /\ self'[s].m_hdcMem = NULL /\ self'[s].m_hBitmap = NULL
                    /\ dib'[s] = NoDib
                    /\ "UpdateLayeredWindow" \notin ApisOf(ev'.calls)
            /\ ev'.op = "WM_TIMER_REDRAW" /\ s \in allocFailed
                 /\ self[s].m_hdcMem = NULL
                 => \/ ev'.calls = << >>
                    \/ "CreateCompatibleDC" \in ApisOf(ev'.calls)
            /\ "CreateCompatibleDC" \in ApisOf(ev'.calls)
                 => self[s].m_hdcMem = NULL ]_vars

\* a redraw tick allocated the buffer after an earlier allocation had failed
C11_Witness ==
    /\ ev.op = "WM_TIMER_REDRAW"
    /\ ev.s \in allocFailed
    /\ Called("CreateCompatibleDC") /\ Called("CreateDIBSection")
    /\ Called("Draw") /\ Called("UpdateLayeredWindow")

\* host calls a fade tick may make: the composite, or the teardown
FadeCalls == { "UpdateLayeredWindow", "DestroyWindow", "KillTimer", "PostMessage" }

\* C12: a fade tick leaves the buffer and its contents as they are and only
\* counts, lowers the alpha and composites (or tears down); a redraw tick
\* leaves the fade counter and the alpha as they are and composites at that
\* alpha; the counter changes by one per fade tick and by nothing else, and
\* the window is destroyed by exactly the fade tick that makes it 100,
\* however many redraw ticks came in between.
C12_IndependentCadences ==
    [][ \A s \in Surfaces :
          ev'.s = s /\ CreatedOnce(s) =>
            /\ ev'.op = "WM_TIMER_FADE"
                 => /\ dib'[s] = dib[s]
                    /\ self'[s].m_hdcMem = self[s].m_hdcMem
                    /\ self'[s].m_hBitmap = self[s].m_hBitmap
                    /\ self'[s].m_pBits = self[s].m_pBits
                    /\ self'[s].m_clockSize = self[s].m_clockSize
                    /\ ApisOf(ev'.calls) \subseteq FadeCalls
                    /\ self'[s].m_fadeoutCounter = self[s].m_fadeoutCounter + 1
                    /\ "DestroyWindow" \in ApisOf(ev'.calls)
                         <=> self'[s].m_fadeoutCounter = 100
            /\ ev'.op = "WM_TIMER_REDRAW"
                 => /\ self'[s].m_fadeoutCounter = self[s].m_fadeoutCounter
                    /\ self'[s].m_currentAlpha = self[s].m_currentAlpha
                    /\ ApisOf(ev'.calls) \cap { "DestroyWindow", "KillTimer" } = { }
                    /\ \A i \in 1 .. Len(ev'.calls) :
                          ev'.calls[i].api = "UpdateLayeredWindow"
                            => ev'.calls[i].args[2] = self[s].m_currentAlpha
            /\ ev'.op # "WM_TIMER_FADE"
                 => /\ self'[s].m_fadeoutCounter = self[s].m_fadeoutCounter
                    /\ "DestroyWindow" \in ApisOf(ev'.calls)
                         => wnd' = wnd ]_vars

\* the hundredth fade tick destroyed the window of a surface whose buffer a
\* redraw tick had allocated in between
C12_Witness ==
    \E s \in Surfaces :
        /\ CreatedOnce(s)
        /\ ev.op = "WM_TIMER_FADE" /\ ev.s = s
        /\ Called("DestroyWindow")
        /\ self[s].m_fadeoutCounter = 100
        /\ s \in allocFailed
        /\ dib[s].bits = Drawn(Hands(<<15, 16, 30>>), self[s].m_clockSize, TRUE)

(* ------------------------- two overlays -------------------------------- *)
\* two overlays constructed in one process
Pair == { 1, 2 }

InitPair == InitWith(Pair)

\* the one screen both overlays of the pair are created on
PairMetrics == { <<20, 30>> }

\* Create succeeds on an overlay of the pair that has no window yet
PairCreate ==
    \E s \in Pair, m \in PairMetrics, t \in LocalTimes :
        /\ WindowsOf(s) = { }
        /\ Create(s, TRUE, m, TRUE, "ok", t, Blank)

\* the message loop dispatches a redraw tick to either window
PairRedraw ==
    \E h \in Handles, t \in LocalTimes : WmTimerRedraw(h, "ok", t, Blank, TRUE)

\* the message loop dispatches a fade tick to either window
PairFade == \E h \in Handles, keep \in BOOLEAN : WmTimerFade(h, TRUE, keep)

NextPair == PairCreate \/ PairRedraw \/ PairFade \/ Cleanup

\* Both overlays go through their whole life, each at its own pace, with
\* every acquisition succeeding.
SpecPair == InitPair /\ [][NextPair]_vars

\* the step changed something object s owns: its members, its buffer, its
\* life, one of its windows or a message queued for one of them
Changed(s) ==
    \/ self'[s] # self[s] \/ dib'[s] # dib[s] \/ obj'[s] # obj[s]
    \/ \E h \in Handles :
          /\ wnd[h].userdata = s \/ wnd'[h].userdata = s
          /\ wnd'[h] # wnd[h] \/ (h \in queue') # (h \in queue)

\* window handles the host calls of a step name
HandlesCalled(calls) ==
    { calls[i].args[1] : i \in { j \in 1 .. Len(calls) :
          calls[j].api \in { "UpdateLayeredWindow", "DestroyWindow", "KillTimer",
                             "PostMessage", "SetTimer", "SetWindowLong" } } }

\* C13: with two overlays in one process, a step taken for one of them
\* (Create, redraw tick, fade tick, teardown, cleanup) leaves the other's
\* members (fade counter, alpha, handle), buffer, windows, timers and queued
\* messages as they were, and every host call of the step names a window of
\* the overlay the step is for; the class-registration flag is the only
\* program state a step for one overlay changes for both.
C13_InstancesIndependent ==
    [][ \A s \in Pair, o \in Pair :
          ev'.s = s /\ o # s =>
            /\ ~Changed(o)
            /\ \A h \in HandlesCalled(ev'.calls) : wnd'[h].userdata = s
            /\ self'[o].m_fadeoutCounter = self[o].m_fadeoutCounter
            /\ self'[o].m_currentAlpha = self[o].m_currentAlpha
            /\ self'[o].m_hWnd = self[o].m_hWnd
            /\ dib'[o].bits = dib[o].bits
            /\ \A h \in WindowsOf(o) : wnd'[h].timers = wnd[h].timers ]_vars

\* one overlay was freed by its cleanup while the other is in the middle of
\* its fade with its buffer, window and timers
C13_Witness ==
    \E s \in Pair, o \in Pair :
        /\ ev.op = "WM_CLEANUP" /\ ev.s = s /\ obj[s] = "freed"
        /\ obj[o] = "alive" /\ LiveWindowsOf(o) # { }
        /\ self[o].m_fadeoutCounter = 42
        /\ self[o].m_currentAlpha = FadeAlpha(42)
        /\ dib[o].bits.hands = Hands(<<15, 16, 30>>)
        /\ \A h \in LiveWindowsOf(o) : wnd[h].timers = { TIMER_ID, FADEOUT_TIMER_ID }

(* --------------------------- the hands --------------------------------- *)
\* values GetLocalTime puts in wHour and wMinute
Hours == 0 .. 23

Minutes == 0 .. 59

\* CreateClockBitmap from GetLocalTime to the two hands: read the time and
\* compute the angles the hands are drawn at.
DrawHands ==
    /\ \E wHour \in Hours, wMinute \in Minutes :
          ev' = Event("DrawHands", 0,
                      << Call("GetLocalTime", << wHour, wMinute >>) >>,
                      << HourAngle(wHour, wMinute), MinuteAngle(wMinute) >>)
    /\ UNCHANGED << obj, self, s_classRegistered, wnd, queue, dib, registerCalls,
                    allocFailed >>

\* the rasterizer's angle computation at every time of the day
SpecHands == Init /\ [][DrawHands]_vars

\* C14: for every hour 0..23 and minute 0..59 the hour-hand angle is
\* ((hour mod 12) + minute/60) * 30 degrees and the minute-hand angle is
\* minute * 6 degrees, both in [0, 360); at 3:15 they are 97.5 and 90
\* degrees.  Stated in half degrees, the first equation multiplied by 60.
C14_HandAngles ==
    ev.op = "DrawHands" =>
        LET hour == ev.calls[1].args[1]
            minute == ev.calls[1].args[2]
            hourAngle == ev.ret[1]
            minuteAngle == ev.ret[2]
        IN /\ 60 * hourAngle = 2 * 30 * ((hour % 12) * 60 + minute)
           /\ 0 <= hourAngle /\ hourAngle < 2 * 360
           /\ minuteAngle = 2 * 6 * minute
           /\ 0 <= minuteAngle /\ minuteAngle < 2 * 360
           /\ hour = 3 /\ minute = 15 => hourAngle = 195 /\ minuteAngle = 180

\* the hands at 15:15, where the hour is past the 12-hour dial
C14_Witness ==
    /\ ev.op = "DrawHands"
    /\ ev.calls[1].args = << 15, 15 >>
    /\ ev.ret = << 195, 180 >>

(* ---------------------------- the mask ---------------------------------- *)
\* Distances are kept times two and squares times four, so that the pixel
\* centre x + 0.5 and the radius m_clockSize / 2.0f are integers.
BYTE_MAX == 255

Bytes == 0 .. BYTE_MAX

\* 4 * distSquared of pixel (x, y) in a buffer of side n:
\* dx = x + 0.5f - centerX with centerX = n / 2.0f
DistSquared4(n, x, y) ==
    (2 * x + 1 - n) * (2 * x + 1 - n) + (2 * y + 1 - n) * (2 * y + 1 - n)

\* 4 * outerRadiusSquared, outerRadius = n / 2.0f
OuterRadiusSquared4(n) == n * n

\* 4 * innerRadiusSquared, innerRadius = outerRadius - 3.0f
InnerRadiusSquared4(n) == (n - 6) * (n - 6)

\* static_cast<BYTE>(a * alpha) with alpha = (outerRadius - dist) / 3 clamped
\* to [0, 1] and dist = sqrt(distSquared): the largest k with
\* 6 * k <= a * (n - sqrt(d4)), decided on the squares.
NewAlpha(a, n, d4) ==
    LET fits(k) == /\ a * n - 6 * k >= 0
                   /\ a * a * d4 <= (a * n - 6 * k) * (a * n - 6 * k)
    IN CHOOSE k \in 0 .. a : fits(k) /\ (k < a => ~fits(k + 1))

\* mutant: the division is done as a shift by eight bits
Premultiply_Shift(c, a) == ((c * a) \div 256) % (BYTE_MAX + 1)

\* static_cast<BYTE>(c * a / 255)
Premultiply(c, a) == ((c * a) \div 255) % (BYTE_MAX + 1)

\* mutant: only the alpha byte is cleared
MaskOutside_AlphaOnly(p) == << p[1], p[2], p[3], 0 >>

\* distSquared >= outerRadiusSquared: all four bytes are set to 0
MaskOutside(p) == << 0, 0, 0, 0 >>

\* mutant: the colours are scaled by the pixel's old alpha
MaskBand_OldAlpha(p, newAlpha) ==
    << Premultiply(p[1], p[4]), Premultiply(p[2], p[4]),
       Premultiply(p[3], p[4]), newAlpha >>

\* distSquared >= innerRadiusSquared: colours scaled by newAlpha, which is
\* stored as the alpha
MaskBand(p, newAlpha) ==
    << Premultiply(p[1], newAlpha), Premultiply(p[2], newAlpha),
       Premultiply(p[3], newAlpha), newAlpha >>

\* inside: colours scaled by the pixel's alpha, the alpha byte not written
MaskInside(p) ==
    << Premultiply(p[1], p[4]), Premultiply(p[2], p[4]),
       Premultiply(p[3], p[4]), p[4] >>

\* the body of the loops of ApplyCircularAlphaMask for pixel (x, y) holding
\* p = (b, g, r, a) in a buffer of side n: the bytes it leaves there
MaskPixel(n, x, y, p) ==
    LET d4 == DistSquared4(n, x, y)
    IN IF d4 >= OuterRadiusSquared4(n) THEN MaskOutside(p)
       ELSE IF d4 >= InnerRadiusSquared4(n)
       THEN MaskBand(p, NewAlpha(p[4], n, d4))
       ELSE MaskInside(p)

\* a few pixels GDI+ may have left
SamplePixels ==
    { << 0, 0, 0, 0 >>, << 255, 255, 255, 255 >>, << 255, 255, 255, 128 >>,
      << 0, 0, 255, 255 >>, << 12, 200, 99, 77 >> }

\* the clock sizes of ScreenMetrics, every pixel of which is tried
SmallSizes == { ClockSize(m[1], m[2]) : m \in ScreenMetrics }

\* a clock size of a real screen, of which the corners and the centre are tried
LargeSize == ClockSize(400, 250)

\* the four corners and the four pixels around the centre of that buffer
LargePixels ==
    ({ 0, LargeSize - 1 } \X { 0, LargeSize - 1 })
      \cup ({ LargeSize \div 2 - 1, LargeSize \div 2 }
              \X { LargeSize \div 2 - 1, LargeSize \div 2 })

\* pixels of the 16 x 16 buffer on which every byte value is tried: the
\* centre, two of the edge band and a corner
SweepPixels == { << 8, 8 >>, << 8, 13 >>, << 8, 15 >>, << 0, 0 >> }

\* one turn of the inner loop on pixel (x, y), holding p, of a buffer of side n
MaskStep(n, x, y, p) ==
    /\ x < n /\ y < n
    /\ ev' = Event("MaskPixel", 0, << Call("pixel", << n, x, y, p >>) >>,
                   MaskPixel(n, x, y, p))

\* The mask is tried on every pixel of the small buffers and on the corners
\* and the centre of the large one, with the sample contents, and on
\* SweepPixels with every value of a colour byte and of the alpha byte.
MaskOnePixel ==
    /\ ev.op = "new"
    /\ \/ \E n \in SmallSizes, x \in 0 .. 15, y \in 0 .. 15, p \in SamplePixels :
             MaskStep(n, x, y, p)
       \/ \E q \in LargePixels, p \in SamplePixels :
             MaskStep(LargeSize, q[1], q[2], p)
       \/ \E q \in SweepPixels, c \in Bytes, a \in Bytes :
             MaskStep(16, q[1], q[2], << c, BYTE_MAX - c, (c + 128) % 256, a >>)
    /\ UNCHANGED << obj, self, s_classRegistered, wnd, queue, dib, registerCalls,
                    allocFailed >>

\* the mask applied to one pixel of a buffer that exists
SpecMask == Init /\ [][MaskOnePixel]_vars

\* the pixel the last step masked: side, position, bytes before and after
MaskedSide == ev.calls[1].args[1]

MaskedX == ev.calls[1].args[2]

MaskedY == ev.calls[1].args[3]

MaskedIn == ev.calls[1].args[4]

MaskedOut == ev.ret

\* four times the squared distance of the centre (x + 0.5, y + 0.5) of the
\* masked pixel from the centre (side / 2, side / 2) of the buffer
CentreDistance4 ==
    (2 * MaskedX + 1 - MaskedSide) * (2 * MaskedX + 1 - MaskedSide)
      + (2 * MaskedY + 1 - MaskedSide) * (2 * MaskedY + 1 - MaskedSide)

\* C15: a pixel whose centre is at squared distance d2 >= (size/2)^2 from the
\* buffer's centre is written as (0, 0, 0, 0) whatever it held; so is every
\* corner pixel of a 200 x 200 buffer.
C15_OutsideIsTransparent ==
    ev.op = "MaskPixel" =>
        /\ CentreDistance4 >= MaskedSide * MaskedSide
             => MaskedOut = << 0, 0, 0, 0 >>
        /\ MaskedSide = 200 /\ MaskedX \in { 0, 199 } /\ MaskedY \in { 0, 199 }
             => MaskedOut = << 0, 0, 0, 0 >>

\* an opaque white corner pixel of the 200 x 200 buffer
C15_Witness ==
    /\ ev.op = "MaskPixel"
    /\ ev.calls[1].args = << 200, 199, 0, << 255, 255, 255, 255 >> >>
    /\ ev.ret = << 0, 0, 0, 0 >>

\* C16: a pixel with d2 < (size/2 - 3)^2, the centre pixel included, keeps
\* its alpha byte a, and each colour channel c becomes c * a / 255 in integer
\* division, for all c and a in 0..255.
C16_InsideIsPremultiplied ==
    ev.op = "MaskPixel" =>
        LET inner2 == MaskedSide - 6
            centre == MaskedSide \div 2
        IN CentreDistance4 < inner2 * inner2
             \/ (MaskedX = centre /\ MaskedY = centre)
           => /\ MaskedOut[4] = MaskedIn[4]
              /\ \A k \in 1 .. 3 :
                    MaskedOut[k] = (MaskedIn[k] * MaskedIn[4]) \div 255

\* the centre pixel with half-transparent colours
C16_Witness ==
    /\ ev.op = "MaskPixel"
    /\ ev.calls[1].args = << 16, 8, 8, << 255, 0, 127, 128 >> >>
    /\ ev.ret = << 128, 0, 63, 128 >>

\* C20: whatever bytes (b, g, r, a) a pixel held and whichever region it is
\* in, after the mask each colour channel is at most the alpha byte and the
\* alpha byte is at most what it was.
C20_PremultipliedAndNotRaised ==
    ev.op = "MaskPixel" =>
        /\ \A k \in 1 .. 3 : MaskedOut[k] <= MaskedOut[4]
        /\ MaskedOut[4] <= MaskedIn[4]
        /\ \A k \in 1 .. 4 : MaskedOut[k] \in 0 .. 255

\* an opaque pixel of the edge band, its colours above the alpha it is
\* left with
C20_Witness ==
    /\ ev.op = "MaskPixel"
    /\ ev.calls[1].args = << 16, 8, 15, << 255, 0, 127, 255 >> >>
    /\ ev.ret = << 41, 0, 20, 41 >>

(* ------------------------- the rasterizer ------------------------------ *)
\* the hands the last step drew, if it drew
DrewHands == { ev.calls[i].args[1] : i \in { j \in 1 .. Len(ev.calls) :
                                                ev.calls[j].api = "Draw" } }

\* C17: a rasterization at (hour, minute) leaves a buffer that depends on
\* the hands of that time and the clock size only, not on what the buffer
\* held: rasterizing again within the same minute leaves the buffer as it
\* is, and the mask has then been applied once to a drawing on a cleared
\* buffer.
C17_RasterizerIdempotent ==
    [][ \A s \in Surfaces :
          ev'.s = s /\ CreatedOnce(s)' =>
            \A a \in DrewHands' :
               /\ dib'[s].bits = Drawn(a, self'[s].m_clockSize, TRUE)
               /\ dib[s].bits.hands = a => dib'[s].bits = dib[s].bits
               /\ \A t \in LocalTimes :
                     Hands(t) = a =>
                       dib'[s].bits
                         = Drawn(<< HourAngle(t[1], t[2]), MinuteAngle(t[2]) >>,
                                 ClockSize(self'[s].m_screenWidth,
                                           self'[s].m_screenHeight), TRUE) ]_vars

\* a redraw tick in the same minute as the one before it
C17_Witness ==
    \E s \in Surfaces :
        /\ ev.op = "WM_TIMER_REDRAW" /\ ev.s = s
        /\ DrewHands = { Hands(<<3, 15, 59>>) }
        /\ ~Called("CreateDIBSection")
        /\ dib[s].bits = Drawn(<< 195, 180 >>, self[s].m_clockSize, TRUE)
        /\ self[s].m_fadeoutCounter = 30

(* --------------------------- the opacity ------------------------------- *)
\* the SourceConstantAlpha values the UpdateLayeredWindow calls among calls pass
CompositeAlphas(calls) ==
    { calls[i].args[2] : i \in { j \in 1 .. Len(calls) :
                                    calls[j].api = "UpdateLayeredWindow" } }

\* C19: the opacity on screen never increases.  Every composite of a
\* surface, by Show, a redraw tick or a fade tick, passes the surface's
\* current alpha, and that alpha never rises from a state to the next; so
\* each composite passes at most what the composite before it passed, as is
\* also stated for the composites of two successive steps.  While no fade
\* tick has been counted a composite passes 255.
C19_OpacityNeverIncreases ==
    [][ \A s \in Surfaces :
          /\ self'[s].m_currentAlpha <= self[s].m_currentAlpha
          /\ ev'.s = s =>
               \A b \in CompositeAlphas(ev'.calls) :
                  /\ b = self'[s].m_currentAlpha
                  /\ self'[s].m_fadeoutCounter = 0 => b = 255
                  /\ ev.s = s => \A a \in CompositeAlphas(ev.calls) : b <= a ]_vars

\* Show composites in the middle of the fade, right after a fade tick did
C19_Witness ==
    \E s \in Surfaces :
        /\ ev.op = "Show" /\ ev.s = s
        /\ self[s].m_fadeoutCounter = 50
        /\ CompositeAlphas(ev.calls) = { 127 }
        /\ LiveWindowsOf(s) # { }

(* ----------------------- deletion by the owner -------------------------- *)
\* delete on the object by the code that constructed it: ~OverlayWindow runs
\* and the memory is freed.  A live window is destroyed from inside the
\* destructor, whose DestroyWindow sends WM_DESTROY to the window procedure
\* of the object under destruction.
OwnerDelete ==
    \E s \in Surfaces, keep \in BOOLEAN :
        /\ obj[s] = "alive"
        /\ LET x == Destructor(self[s], dib[s], wnd, queue, keep)
           IN /\ obj' = [ obj EXCEPT ![s] = "freed" ]
              /\ dib' = [ dib EXCEPT ![s] = x.d ]
              /\ wnd' = x.wnd
              /\ queue' = x.queue
              /\ ev' = Event("delete", s, x.calls, "void")
        /\ UNCHANGED << self, s_classRegistered, registerCalls, allocFailed >>

NextOwner == Next \/ OwnerDelete

\* The life of one overlay whose owner may delete it at any time.
SpecOwner == Init /\ [][NextOwner]_vars

\* steps in which ~OverlayWindow runs
DestructorOps == { "WM_CLEANUP", "delete" }

\* host calls WndProc makes when it handles WM_DESTROY
WmDestroyCalls == { "KillTimer", "PostMessage" }

\* C18: each teardown step happens at most once per surface, whoever starts
\* the teardown: DestroyWindow is called only on a window that has not been
\* destroyed (never by the destructor on a handle whose window is gone), the
\* destructor runs at most once on an object, and WndProc handles no message
\* on an object that is freed or whose destructor is running.
C18_TeardownStepsAtMostOnce ==
    [][ \A s \in Surfaces :
          ev'.s = s =>
            /\ \A i \in 1 .. Len(ev'.calls) :
                  ev'.calls[i].api = "DestroyWindow"
                    => /\ ev'.calls[i].args[1] \in Handles
                       /\ wnd[ev'.calls[i].args[1]].state = "live"
            /\ ev'.op \in DestructorOps
                 => /\ obj[s] = "alive"
                    /\ ApisOf(ev'.calls) \cap WmDestroyCalls = { }
            /\ obj[s] = "freed" => ev'.op \notin TimerOps \cup { "WM_PAINT" } ]_vars

====
